---- MODULE Spec2Model ----
\* A model of github.com/futurist/better-command, package command:
\*   - the escaper ReplaceShellString and the template expander New
\*     (src/command/shell.go), as operators computed the way the code
\*     computes them, exercised by SpecEscape and SpecNew;
\*   - the process lifecycle supervisor (Command: Context, Timeout, OnExit,
\*     AsUser, Run, Output, CombinedOutput, cleanup) as a state machine of
\*     the calling goroutine, the watcher goroutines and the operating
\*     system, exercised by Spec.
\* Strings are sequences of one-character strings.
EXTENDS Integers, Sequences, FiniteSets, TLC

VARIABLES
    \* ---- ReplaceShellString(s, nonEscape) -> r
    s, nonEscape, r, escPc,
    \* ---- New(cmdArgs, parts...) -> Args (or an index-out-of-range panic)
    cmdArgs, parts, Args, newPc,
    \* ---- the program and argument vector of the handle's exec.Cmd
    Path,       \* c.Cmd.Path: the executable that Start runs
    Argv,       \* c.Cmd.Args: the argument vector handed to it, Argv[1] is argv[0]
    isRoot,     \* user.Current().Uid == "0"
    configs,    \* number of Shell and UseSudo calls made on the handle
    shellName,  \* history: the name given to the last Shell call, "" if none
    execve,     \* the program and argument vector Start executed, << >> before
    argvPc,     \* "idle", "config" (handle built, not started) or "started"
    \* ---- the Command handle
    Pid,        \* c.Pid: 0 until Run records the started process
    LastError,  \* c.LastError: "nil" or the error AsUser recorded
    CtxErr,     \* c.Ctx.Err(): "nil" or "canceled"
    Cancel,     \* c.Cancel: "set" or "nil"
    onexit,     \* c.onexit: the exit hooks not yet taken by a cleanup
    Stdout,     \* c.Cmd.Stdout: "nil", "writer" (the caller's) or "buffer"
    Stderr,     \* c.Cmd.Stderr: "nil", "writer", "saver" or "buffer"
    \* ---- the goroutines: 0 is the caller, k >= 1 the watcher of link k
    pc,         \* position of each goroutine
    taken,      \* the local slice `onexit` of the goroutine's running cleanup()
    frame,      \* whose deferred cleanup the caller runs: "Run" or "outer"
    op,         \* the terminal operation invoked: "Run", "Output", "CombinedOutput"
    err,        \* the error the terminal operation returns
    onstart,    \* c.onstart: the start hooks, in registration order
    startSeen,  \* history: <<hook, the c.Pid it read>> for every start hook call, in order
    eeStderr,   \* the Stderr field of that error: "nil", or "captured" once
                \* Output stored the bytes of its prefixSuffixSaver in it
    link,       \* kind of link k: "none", "context" (Context) or "timeout" (Timeout)
    linkDone,   \* the Done channel of link k's own signal: "open", or closed
                \* because the signal "fired" or because it was "released"
    panicked,   \* a goroutine called a nil func: the program has crashed
    \* ---- the operating system
    Process,    \* "none", "running", "exited" (on its own) or "killed"
    groupKill,  \* syscall.Kill(-pid, SIGKILL) was issued
    \* ---- history
    starts,     \* number of processes started
    ran,        \* how many times each exit hook was executed
    registered, \* the exit hooks registered so far
    firedRunning, \* a linked signal fired while the child was running
    \* ---- the scenario
    maxLinks    \* how many cancellation links the caller may attach

escVars == <<s, nonEscape, r, escPc>>
newVars == <<cmdArgs, parts, Args, newPc>>
cmdVars == <<Pid, LastError, CtxErr, Cancel, onexit, Stdout, Stderr>>
goVars  == <<pc, taken, frame, op, err, link, linkDone, panicked, maxLinks>>
osVars  == <<Process, groupKill>>
histVars == <<starts, ran, registered, firedRunning>>
startVars == <<onstart, startSeen>>
lifeVars == <<cmdVars, goVars, eeStderr, startVars, osVars, histVars>>
argvVars == <<Path, Argv, isRoot, configs, shellName, execve, argvPc>>
pureVars == <<escVars, newVars, argvVars>>
vars == <<pureVars, lifeVars>>

-----------------------------------------------------------------------------
\* Bounds of the model.

\* longest raw string handed to ReplaceShellString
MaxLen == 4
\* most elements of the argument-vector template handed to New
MaxElems == 2
\* most arguments handed to New
MaxParts == 2
\* most cancellation links (Context and Timeout calls) on one handle
MaxLinks == 1
\* most hooks the caller registers with OnExit
MaxHooks == 1
\* longest text in front of a variable reference handed to ReplaceShellString
MaxPre == 3
\* longest text behind that reference
MaxPost == 1
\* most Shell and UseSudo calls on one handle
MaxConfig == 3
\* most hooks the caller registers with OnStart
MaxStarts == 2

-----------------------------------------------------------------------------
\* The character classifier.

shellVars ==
    { "0", "1", "2", "3", "4", "5", "6", "7", "8", "9",
      "A", "B", "C", "D", "E", "F", "G", "H", "I", "J", "K", "L", "M",
      "N", "O", "P", "Q", "R", "S", "T", "U", "V", "W", "X", "Y", "Z",
      "_",
      "a", "b", "c", "d", "e", "f", "g", "h", "i", "j", "k", "l", "m",
      "n", "o", "p", "q", "r", "s", "t", "u", "v", "w", "x", "y", "z" }

shellNormal == { "#", "%", "+", "-", ".", "~", "/", ":", "=" } \cup shellVars

\* strings.Contains(shellVars, sub) for a sub of at most one character:
\* the empty string is contained in every string.
ContainsShellVars(sub) == sub = "" \/ sub \in shellVars

\* s[i+1 : i+2] guarded by i+1 < len(s) (here i is 1-based): "" past the end
NextAt(str, i) == IF i + 1 <= Len(str) THEN str[i + 1] ELSE ""

\* s[i+2 : i+3] guarded by i+2 < len(s)
Next2At(str, i) == IF i + 2 <= Len(str) THEN str[i + 2] ELSE ""

-----------------------------------------------------------------------------
\* ReplaceShellString: the loop body for character i with scanner state
\* inVar (0 none, 1 in $NAME, 2 in ${NAME), followed by the rest of the loop.

RECURSIVE ReplaceLoop(_, _, _, _)
ReplaceLoop(str, nonEsc, i, inVar) ==
    IF i > Len(str) THEN << >>
    ELSE
      LET v     == str[i]
          next  == NextAt(str, i)
          next2 == Next2At(str, i)
      IN
      IF nonEsc THEN <<v>> \o ReplaceLoop(str, nonEsc, i + 1, inVar)
      ELSE
        LET inVar1 == IF inVar = 1 /\ ~ContainsShellVars(v) THEN 0 ELSE inVar
        IN
        IF inVar1 = 2 /\ v # "{" /\ ~ContainsShellVars(v)
        THEN <<v>> \o ReplaceLoop(str, nonEsc, i + 1, 0)
        ELSE
          LET inVar2 == IF v = "$" /\ ContainsShellVars(next) THEN 1 ELSE inVar1
              inVar3 == IF v = "$" /\ next = "{" /\ ContainsShellVars(next2)
                        THEN 2 ELSE inVar2
          IN
          IF inVar3 > 0
          THEN <<v>> \o ReplaceLoop(str, nonEsc, i + 1, inVar3)
          ELSE (IF v \notin shellNormal THEN <<"\\", v>> ELSE <<v>>)
                 \o ReplaceLoop(str, nonEsc, i + 1, inVar3)

ReplaceShellString(str, nonEsc) == ReplaceLoop(str, nonEsc, 1, 0)

\* The value of inVar when the loop (with nonEscape false) reaches
\* character i: 0 before the first character, and after character i - 1
\* whatever the assignments of its iteration left.
RECURSIVE InVarAt(_, _)
InVarAt(str, i) ==
    IF i <= 1 THEN 0
    ELSE
      LET j      == i - 1
          v      == str[j]
          inVar  == InVarAt(str, j)
          inVar1 == IF inVar = 1 /\ ~ContainsShellVars(v) THEN 0 ELSE inVar
      IN
      IF inVar1 = 2 /\ v # "{" /\ ~ContainsShellVars(v) THEN 0
      ELSE IF v = "$" /\ NextAt(str, j) = "{" /\ ContainsShellVars(Next2At(str, j))
      THEN 2
      ELSE IF v = "$" /\ ContainsShellVars(NextAt(str, j)) THEN 1
      ELSE inVar1

\* What the iterations of characters i .. j write to the builder r
\* (nonEscape false): the loop from i without what the loop from j + 1 writes.
WrittenFor(str, i, j) ==
    LET from == ReplaceLoop(str, FALSE, i, InVarAt(str, i))
        rest == ReplaceLoop(str, FALSE, j + 1, InVarAt(str, j + 1))
    IN SubSeq(from, 1, Len(from) - Len(rest))

-----------------------------------------------------------------------------
\* Inputs of the escaper: every string of at most MaxLen characters over an
\* alphabet holding a variable sigil, both braces, an identifier character,
\* a bare-safe punctuation character and an unsafe character.

EscAlphabet == { "$", "{", "}", "A", "-", ";" }

RECURSIVE SeqsUpTo(_, _)
SeqsUpTo(S, n) ==
    IF n = 0 THEN { << >> }
    ELSE LET shorter == SeqsUpTo(S, n - 1)
         IN shorter \cup { Append(q, x) : q \in { t \in shorter : Len(t) = n - 1 }, x \in S }

EscInputs == SeqsUpTo(EscAlphabet, MaxLen)

EscIdle ==
    /\ s = << >> /\ nonEscape = FALSE /\ r = << >> /\ escPc = "idle"

NewIdle ==
    /\ cmdArgs = << >> /\ parts = << >> /\ Args = << >> /\ newPc = "idle"

EscInit ==
    /\ s \in EscInputs
    /\ nonEscape \in BOOLEAN
    /\ r = << >>
    /\ escPc = "call"

\* Inputs that hold a variable reference, `$A` or `${A}`, between a text of
\* at most MaxPre characters and a text of at most MaxPost characters.
RefTexts == { << "$", "A" >>, << "$", "{", "A", "}" >> }

RefInputs ==
    { pre \o ref \o post : pre \in SeqsUpTo(EscAlphabet, MaxPre),
                              ref \in RefTexts,
                              post \in SeqsUpTo(EscAlphabet, MaxPost) }

RefInit ==
    /\ s \in RefInputs
    /\ nonEscape \in BOOLEAN
    /\ r = << >>
    /\ escPc = "call"

\* the call r := ReplaceShellString(s, nonEscape)
Escape ==
    /\ escPc = "call"
    /\ r' = ReplaceShellString(s, nonEscape)
    /\ escPc' = "done"
    /\ UNCHANGED <<s, nonEscape>>

EscNext == Escape /\ UNCHANGED <<newVars, argvVars, lifeVars>>

-----------------------------------------------------------------------------
\* The tokenizer (package shlex): a template is split at quote characters
\* into runs; a '...' run is a single-quoted token (IsNonEscape), a "..."
\* run and an unquoted run are tokens whose arguments keep their variable
\* references. The delimiters are not part of the token text.

Token(text, mode) == [text |-> text, nonEscape |-> (mode = "single")]

RECURSIVE TokenLoop(_, _, _, _)
TokenLoop(v, i, mode, cur) ==
    IF i > Len(v)
    THEN IF mode = "bare" /\ cur = << >> THEN << >> ELSE << Token(cur, mode) >>
    ELSE
      LET ch == v[i] IN
      IF mode = "bare"
      THEN IF ch \in { "'", "\"" }
           THEN (IF cur = << >> THEN << >> ELSE << Token(cur, "bare") >>)
                  \o TokenLoop(v, i + 1, IF ch = "'" THEN "single" ELSE "double", << >>)
           ELSE TokenLoop(v, i + 1, "bare", Append(cur, ch))
      ELSE IF (mode = "single" /\ ch = "'") \/ (mode = "double" /\ ch = "\"")
           THEN << Token(cur, mode) >> \o TokenLoop(v, i + 1, "bare", << >>)
           ELSE TokenLoop(v, i + 1, mode, Append(cur, ch))

Tokenize(v) == TokenLoop(v, 1, "bare", << >>)

-----------------------------------------------------------------------------
\* New: the placeholder replacement loop.

\* strings.Index(str, "%s"), 1-based; 0 when str does not contain "%s"
IndexMarker(str) ==
    LET hits == { p \in 1..(Len(str) - 1) : str[p] = "%" /\ str[p + 1] = "s" }
    IN IF hits = {} THEN 0 ELSE CHOOSE p \in hits : \A q \in hits : p <= q

\* for strings.Contains(s, "%s") { sanitized := ReplaceShellString(parts[i], ...);
\*   s = strings.Replace(s, "%s", sanitized, 1); i++ }
\* i is the 0-based index of the source; parts[i] panics when i >= len(parts).
RECURSIVE ReplaceMarkers(_, _, _, _)
ReplaceMarkers(str, ps, i, nonEsc) ==
    LET p == IndexMarker(str) IN
    IF p = 0 THEN [s |-> str, i |-> i, panic |-> FALSE]
    ELSE IF i >= Len(ps) THEN [s |-> str, i |-> i, panic |-> TRUE]
    ELSE ReplaceMarkers(SubSeq(str, 1, p - 1)
                          \o ReplaceShellString(ps[i + 1], nonEsc)
                          \o SubSeq(str, p + 2, Len(str)),
                        ps, i + 1, nonEsc)

\* the token loop of one element: c = append(c, s) ... strings.Join(c, "")
RECURSIVE ExpandTokens(_, _, _, _)
ExpandTokens(toks, k, ps, i) ==
    IF k > Len(toks) THEN [s |-> << >>, i |-> i, panic |-> FALSE]
    ELSE
      LET t == ReplaceMarkers(toks[k].text, ps, i, toks[k].nonEscape) IN
      IF t.panic THEN [s |-> << >>, i |-> t.i, panic |-> TRUE]
      ELSE LET rest == ExpandTokens(toks, k + 1, ps, t.i)
           IN [s |-> t.s \o rest.s, i |-> rest.i, panic |-> rest.panic]

\* the body of `for i2, v := range cmdArgs`: the argument index i starts at 0
\* for every element
ExpandElement(v, ps) == ExpandTokens(Tokenize(v), 1, ps, 0)

\* the argument vector New builds, or the index-out-of-range panic
NewArgs(ca, ps) ==
    LET e == [k \in 1..Len(ca) |-> ExpandElement(ca[k], ps)] IN
    IF \E k \in 1..Len(ca) : e[k].panic
    THEN [panic |-> TRUE, args |-> << >>]
    ELSE [panic |-> FALSE, args |-> [k \in 1..Len(ca) |-> e[k].s]]

\* Inputs of New: argument-vector templates of 1..MaxElems elements and
\* 0..MaxParts arguments.
TemplateElems ==
    { << "a" >>,
      << "%", "s" >>,
      << "a", "%", "s" >>,
      << "%", "s", "%", "s" >>,
      << "'", "%", "s", "'" >>,
      << "%", "%", "s" >> }

ArgSet == { << "a" >>, << "$" >>, << ";" >>, << "s" >>, << "%", "s" >> }

NewInit ==
    /\ cmdArgs \in (SeqsUpTo(TemplateElems, MaxElems) \ { << >> })
    /\ parts \in SeqsUpTo(ArgSet, MaxParts)
    /\ Args = << >>
    /\ newPc = "call"

\* the call New(cmdArgs, parts...)
New ==
    /\ newPc = "call"
    /\ LET res == NewArgs(cmdArgs, parts) IN
         /\ Args' = res.args
         /\ newPc' = IF res.panic THEN "panic" ELSE "done"
    /\ UNCHANGED <<cmdArgs, parts>>

NewNext == New /\ UNCHANGED <<escVars, argvVars, lifeVars>>

-----------------------------------------------------------------------------
\* The program a handle runs: New hands cmdArgs[0] and cmdArgs[1:] to
\* exec.CommandContext, which resolves the name to Path once and keeps the
\* whole vector as Args; Shell and UseSudo then rewrite Args only; Start
\* executes Path with Args as the argument vector.

\* exec.LookPath for a name without path separators: the file of that name
\* found on PATH
LookPath(name) == << "PATH", name >>

\* the template text of a `-c` invocation, taken as expanded
Template == "T"

ShellNames == { "bash", "zsh" }

\* NewSh(cmdString): New([]string{"sh", "-c", cmdString})
NewShArgs == << "sh", "-c", Template >>

\* the argument vectors the handle is constructed with
ProgramArgs == { NewShArgs, << "bash", "-c", Template >>, << "env", "sh", "-c", Template >> }

ArgvIdle ==
    /\ Path = << >> /\ Argv = << >> /\ isRoot = FALSE /\ configs = 0
    /\ shellName = "" /\ execve = << >> /\ argvPc = "idle"

\* the handle returned by New(args): exec.CommandContext(ctx, args[0], args[1:]...)
ArgvInit ==
    /\ \E args \in ProgramArgs :
          /\ Path = LookPath(args[1])
          /\ Argv = args
    /\ isRoot \in BOOLEAN
    /\ configs = 0
    /\ shellName = ""
    /\ execve = << >>
    /\ argvPc = "config"

\* sudo(): nil (no element) for root, else {"sudo", "-E"}
sudo == IF isRoot THEN << >> ELSE << "sudo", "-E" >>

\* c.UseSudo()
UseSudo ==
    /\ argvPc = "config" /\ configs < MaxConfig
    /\ Argv' = IF sudo # << >> THEN sudo \o Argv ELSE Argv
    /\ configs' = configs + 1
    /\ UNCHANGED <<Path, isRoot, shellName, execve, argvPc, escVars, newVars, lifeVars>>

\* c.Shell(name): c.Cmd.Args[0] = name
Shell(name) ==
    /\ argvPc = "config" /\ configs < MaxConfig
    /\ Argv' = [Argv EXCEPT ![1] = name]
    /\ shellName' = name
    /\ configs' = configs + 1
    /\ UNCHANGED <<Path, isRoot, execve, argvPc, escVars, newVars, lifeVars>>

\* c.Start() inside the terminal operation: the operating system executes
\* the file c.Cmd.Path with c.Cmd.Args as its argument vector
Start ==
    /\ argvPc = "config"
    /\ execve' = << Path, Argv >>
    /\ argvPc' = "started"
    /\ UNCHANGED <<Path, Argv, isRoot, configs, shellName, escVars, newVars, lifeVars>>

ArgvNext ==
    \/ UseSudo
    \/ \E name \in ShellNames : Shell(name)
    \/ Start

-----------------------------------------------------------------------------
\* The process lifecycle supervisor.
\* The build modelled is the non-Windows one (initCmd installs killChild and
\* sets Setpgid, so the child leads a process group whose id is its pid).
\* The handle is taken as constructed: c.Cmd.SysProcAttr is allocated, so
\* neither initCmd nor AsUser dereferences nil.
\* A critical section of c.mu is one atomic action; everything the code
\* reads or writes outside the lock (c.Cancel, c.Ctx) is a step of its own.
\* A step that touches only what its goroutine owns is merged with the next
\* step of that goroutine (the select of a watcher with the statement of the
\* chosen case: a ready channel stays ready).

Links == 1..maxLinks
Goroutines == 0..maxLinks

\* the pid of the started child
ChildPid == 1

KillHook == <<"killChild", 0>>
ReleaseHook(k) == <<"release", k>>
UserHook(n) == <<"hook", n>>

\* what New leaves behind: ctx, cancel := context.WithCancel(...), the
\* handle, and onexit = [killChild]; n cancellation links can be attached
LifeInit(n) ==
    /\ maxLinks = n
    /\ Pid = 0 /\ LastError = "nil" /\ CtxErr = "nil" /\ Cancel = "set"
    /\ onexit = << KillHook >>
    /\ Stdout = "nil" /\ Stderr = "nil"
    /\ pc = [g \in 0..n |-> IF g = 0 THEN "config" ELSE "unused"]
    /\ taken = [g \in 0..n |-> << >>]
    /\ frame = "none" /\ op = "none" /\ err = "none" /\ eeStderr = "nil"
    /\ onstart = << >> /\ startSeen = << >>
    /\ link = [k \in 1..n |-> "none"]
    /\ linkDone = [k \in 1..n |-> "open"]
    /\ panicked = FALSE
    /\ Process = "none" /\ groupKill = FALSE
    /\ starts = 0
    /\ ran = [h \in {KillHook} \cup {ReleaseHook(k) : k \in 1..n}
                      \cup {UserHook(m) : m \in 1..MaxHooks} |-> 0]
    /\ registered = {KillHook}
    /\ firedRunning = FALSE

\* <-ctx.Done() of link k is ready: its own signal fired or was released,
\* or (a context derived from c.Ctx by Timeout) c.Ctx was cancelled
LinkReady(k) == linkDone[k] # "open" \/ (link[k] = "timeout" /\ CtxErr = "canceled")

\* the lowest unused link
NextLink(k) == link[k] = "none" /\ \A j \in Links : j < k => link[j] # "none"

Configuring == ~panicked /\ pc[0] = "config"

\* no watcher has been started and no hook registered by the caller: the
\* calls that touch only fields no watcher reads (AsUser, Stdout, Stderr)
\* commute with every other step, and are taken first
Unwatched == (\A k \in Links : link[k] = "none") /\ registered = {KillHook}

\* ---- configuration calls (the caller, before the terminal operation)

\* Context(ctx): go func() { select { ... } c.cleanup() }()
Context(k) ==
    /\ Configuring /\ NextLink(k)
    /\ link' = [link EXCEPT ![k] = "context"]
    /\ pc' = [pc EXCEPT ![k] = "select"]
    /\ UNCHANGED <<cmdVars, taken, frame, op, err, linkDone, panicked, maxLinks,
                   osVars, histVars, eeStderr, startVars, pureVars>>

\* Timeout(d): ctx, cancel := context.WithTimeout(c.Ctx, d);
\* c.onexit = append(c.onexit, cancel) under c.mu; return c.Context(ctx)
Timeout(k) ==
    /\ Configuring /\ NextLink(k)
    /\ onexit' = Append(onexit, ReleaseHook(k))
    /\ registered' = registered \cup {ReleaseHook(k)}
    /\ link' = [link EXCEPT ![k] = "timeout"]
    /\ pc' = [pc EXCEPT ![k] = "select"]
    /\ UNCHANGED <<Pid, LastError, CtxErr, Cancel, Stdout, Stderr, taken, frame, op,
                   err, linkDone, panicked, maxLinks, osVars, starts, ran, firedRunning,
                   eeStderr, startVars, pureVars>>

\* OnExit(f): c.onexit = append(c.onexit, f) under c.mu
OnExit(n) ==
    /\ Configuring
    /\ UserHook(n) \notin registered
    /\ \A m \in 1..(n - 1) : UserHook(m) \in registered
    /\ onexit' = Append(onexit, UserHook(n))
    /\ registered' = registered \cup {UserHook(n)}
    /\ UNCHANGED <<Pid, LastError, CtxErr, Cancel, Stdout, Stderr, goVars, osVars,
                   starts, ran, firedRunning, eeStderr, startVars, pureVars>>

\* OnStart(f): c.onstart = append(c.onstart, f) under c.mu; f is the n-th
\* start hook of the handle
OnStart(n) ==
    /\ Configuring
    /\ Len(onstart) = n - 1
    /\ onstart' = Append(onstart, n)
    /\ UNCHANGED <<cmdVars, goVars, eeStderr, startSeen, osVars, histVars, pureVars>>

\* AsUser(osuser): user.Lookup fails ("lookup"), strconv.ParseUint fails
\* ("parse"), or the credential is set ("ok"); a failure is recorded in
\* c.LastError and the handle is returned
AsUser(outcome) ==
    /\ Configuring /\ Unwatched
    /\ LastError' = IF outcome = "ok" THEN LastError ELSE outcome
    /\ UNCHANGED <<Pid, CtxErr, Cancel, onexit, Stdout, Stderr, goVars, osVars,
                   histVars, eeStderr, startVars, pureVars>>

\* Stdout(f)
SetStdout ==
    /\ Configuring /\ Unwatched /\ Stdout = "nil"
    /\ Stdout' = "writer"
    /\ UNCHANGED <<Pid, LastError, CtxErr, Cancel, onexit, Stderr, goVars, osVars,
                   histVars, eeStderr, startVars, pureVars>>

\* Stderr(f)
SetStderr ==
    /\ Configuring /\ Unwatched /\ Stderr = "nil"
    /\ Stderr' = "writer"
    /\ UNCHANGED <<Pid, LastError, CtxErr, Cancel, onexit, Stdout, goVars, osVars,
                   histVars, eeStderr, startVars, pureVars>>

\* ---- cleanup(), run by the caller (deferred) and by every watcher

\* where a goroutine continues when its cleanup() returns: a watcher ends;
\* the caller returns from Run, into Output/CombinedOutput when one of them
\* called Run, and otherwise to the user
AfterCleanup(g) ==
    IF g # 0 THEN "done"
    ELSE IF frame = "Run" /\ op # "Run" THEN "out_post" ELSE "returned"

\* a cleanup that copies the hook list and leaves it on the handle
CleanupTakeKeep(g) ==
    /\ ~panicked /\ pc[g] = "cl_take"
    /\ taken' = [taken EXCEPT ![g] = onexit]
    /\ pc' = [pc EXCEPT ![g] = "cl_hooks"]
    /\ UNCHANGED <<Pid, LastError, CtxErr, Cancel, onexit, Stdout, Stderr, frame, op, err,
                   link, linkDone, panicked, maxLinks, osVars, histVars, eeStderr, startVars, pureVars>>

\* c.mu.Lock(); onexit := c.onexit; c.onexit = nil; c.mu.Unlock()
CleanupTake(g) ==
    /\ ~panicked /\ pc[g] = "cl_take"
    /\ taken' = [taken EXCEPT ![g] = onexit]
    /\ onexit' = << >>
    /\ pc' = [pc EXCEPT ![g] = "cl_hooks"]
    /\ UNCHANGED <<Pid, LastError, CtxErr, Cancel, Stdout, Stderr, frame, op, err,
                   link, linkDone, panicked, maxLinks, osVars, histVars, eeStderr, startVars, pureVars>>

\* a kill hook that signals the group whatever Pid and Ctx are
killChildUnguarded ==
    /\ groupKill' = TRUE
    /\ Process' = IF Process = "running" THEN "killed" ELSE Process

\* killChild: pid == 0 || c.Ctx.Err() == nil -> return; else
\* syscall.Kill(-pid, syscall.SIGKILL), which ends a process still running
killChild ==
    IF Pid = 0 \/ CtxErr = "nil"
    THEN UNCHANGED <<groupKill, Process>>
    ELSE /\ groupKill' = TRUE
         /\ Process' = IF Process = "running" THEN "killed" ELSE Process

\* for _, f := range onexit { f(c) }: one hook per step
CleanupHook(g) ==
    /\ ~panicked /\ pc[g] = "cl_hooks" /\ taken[g] # << >>
    /\ LET h == Head(taken[g]) IN
         /\ taken' = [taken EXCEPT ![g] = Tail(taken[g])]
         /\ ran' = [ran EXCEPT ![h] = ran[h] + 1]
         /\ IF h = KillHook
            THEN killChild /\ UNCHANGED linkDone
            ELSE /\ UNCHANGED <<groupKill, Process>>
                 /\ linkDone' = IF h[1] = "release" /\ linkDone[h[2]] = "open"
                                THEN [linkDone EXCEPT ![h[2]] = "released"]
                                ELSE linkDone
    /\ UNCHANGED <<cmdVars, pc, frame, op, err, link, panicked, maxLinks, starts,
                   registered, firedRunning, eeStderr, startVars, pureVars>>

\* if c.Cancel != nil {   (the read of the nil check)
CleanupCheck(g) ==
    /\ ~panicked /\ pc[g] = "cl_hooks" /\ taken[g] = << >>
    /\ pc' = [pc EXCEPT ![g] = IF Cancel # "nil" THEN "cl_call" ELSE AfterCleanup(g)]
    /\ UNCHANGED <<cmdVars, taken, frame, op, err, link, linkDone, panicked, maxLinks,
                   osVars, histVars, eeStderr, startVars, pureVars>>

\* c.Cancel() }   (the call; when a watcher has stored nil since the check,
\* the call either loads nil and panics or uses the value the check loaded)
CleanupCall(g) ==
    /\ ~panicked /\ pc[g] = "cl_call"
    /\ \/ /\ CtxErr' = "canceled"
          /\ pc' = [pc EXCEPT ![g] = AfterCleanup(g)]
          /\ UNCHANGED panicked
       \/ /\ Cancel = "nil"
          /\ panicked' = TRUE
          /\ UNCHANGED <<CtxErr, pc>>
    /\ UNCHANGED <<Pid, LastError, Cancel, onexit, Stdout, Stderr, taken, frame, op, err,
                   link, linkDone, maxLinks, osVars, histVars, eeStderr, startVars, pureVars>>

\* ---- the watcher goroutine of Context

\* select { case <-ctx.Done(): c.Cancel() ...: the linked signal is ready and
\* is chosen; calling a nil func panics
WatchCancel(k) ==
    /\ ~panicked /\ pc[k] = "select" /\ LinkReady(k)
    /\ IF Cancel = "nil"
       THEN panicked' = TRUE /\ UNCHANGED <<CtxErr, pc>>
       ELSE /\ CtxErr' = "canceled"
            /\ pc' = [pc EXCEPT ![k] = "w_clear"]
            /\ UNCHANGED panicked
    /\ UNCHANGED <<Pid, LastError, Cancel, onexit, Stdout, Stderr, taken, frame, op, err,
                   link, linkDone, maxLinks, osVars, histVars, eeStderr, startVars, pureVars>>

\* c.Cancel = nil
WatchClear(k) ==
    /\ ~panicked /\ pc[k] = "w_clear"
    /\ Cancel' = "nil"
    /\ pc' = [pc EXCEPT ![k] = "cl_take"]
    /\ UNCHANGED <<Pid, LastError, CtxErr, onexit, Stdout, Stderr, taken, frame, op, err,
                   link, linkDone, panicked, maxLinks, osVars, histVars, eeStderr, startVars, pureVars>>

\* select { ... case <-c.Ctx.Done(): }: the handle's own context is done and
\* is chosen
WatchCtxDone(k) ==
    /\ ~panicked /\ pc[k] = "select" /\ CtxErr = "canceled"
    /\ pc' = [pc EXCEPT ![k] = "cl_take"]
    /\ UNCHANGED <<cmdVars, taken, frame, op, err, link, linkDone, panicked, maxLinks,
                   osVars, histVars, eeStderr, startVars, pureVars>>

\* ---- the terminal operations (the caller)

\* the caller leaves a function with error e: its deferred cleanup() runs
Leave(f, e) ==
    /\ err' = e
    /\ frame' = f
    /\ pc' = [pc EXCEPT ![0] = "cl_take"]

\* a terminal operation that never looks at c.LastError
LastErrorIgnored == FALSE

\* if c.LastError != nil { return c.LastError }
LastErrorSet == LastError # "nil"

\* Output without its Stdout check: it runs the command on the stream the
\* caller bound
OutputUnchecked ==
    /\ Configuring
    /\ op' = "Output"
    /\ IF LastErrorSet
       THEN Leave("outer", LastError) /\ UNCHANGED <<Stdout, Stderr>>
       ELSE /\ Stdout' = IF Stdout = "nil" THEN "buffer" ELSE Stdout
            /\ Stderr' = IF Stderr = "nil" THEN "saver" ELSE Stderr
            /\ pc' = [pc EXCEPT ![0] = "run_call"]
            /\ UNCHANGED <<err, frame>>
    /\ UNCHANGED <<Pid, LastError, CtxErr, Cancel, onexit, taken, link, linkDone,
                   panicked, maxLinks, osVars, histVars, eeStderr, startVars, pureVars>>

\* the caller invokes Output(): defer c.cleanup(), the LastError check, the
\* Stdout check, the capture buffers, up to its call of Run
Output ==
    /\ Configuring
    /\ op' = "Output"
    /\ IF LastErrorSet
       THEN Leave("outer", LastError) /\ UNCHANGED <<Stdout, Stderr>>
       ELSE IF Stdout # "nil"
       THEN Leave("outer", "stdout_set") /\ UNCHANGED <<Stdout, Stderr>>
       ELSE /\ Stdout' = "buffer"
            /\ Stderr' = IF Stderr = "nil" THEN "saver" ELSE Stderr
            /\ pc' = [pc EXCEPT ![0] = "run_call"]
            /\ UNCHANGED <<err, frame>>
    /\ UNCHANGED <<Pid, LastError, CtxErr, Cancel, onexit, taken, link, linkDone,
                   panicked, maxLinks, osVars, histVars, eeStderr, startVars, pureVars>>

\* CombinedOutput without its Stderr check: it captures Stdout and leaves a
\* bound Stderr to the caller's writer
CombinedOutputUnchecked ==
    /\ Configuring
    /\ op' = "CombinedOutput"
    /\ IF LastErrorSet
       THEN Leave("outer", LastError) /\ UNCHANGED <<Stdout, Stderr>>
       ELSE IF Stdout # "nil"
       THEN Leave("outer", "stdout_set") /\ UNCHANGED <<Stdout, Stderr>>
       ELSE /\ Stdout' = "buffer"
            /\ Stderr' = IF Stderr = "nil" THEN "buffer" ELSE Stderr
            /\ pc' = [pc EXCEPT ![0] = "run_call"]
            /\ UNCHANGED <<err, frame>>
    /\ UNCHANGED <<Pid, LastError, CtxErr, Cancel, onexit, taken, link, linkDone,
                   panicked, maxLinks, osVars, histVars, eeStderr, startVars, pureVars>>

\* the caller invokes CombinedOutput(), up to its call of Run
CombinedOutput ==
    /\ Configuring
    /\ op' = "CombinedOutput"
    /\ IF LastErrorSet
       THEN Leave("outer", LastError) /\ UNCHANGED <<Stdout, Stderr>>
       ELSE IF Stdout # "nil"
       THEN Leave("outer", "stdout_set") /\ UNCHANGED <<Stdout, Stderr>>
       ELSE IF Stderr # "nil"
       THEN Leave("outer", "stderr_set") /\ UNCHANGED <<Stdout, Stderr>>
       ELSE /\ Stdout' = "buffer"
            /\ Stderr' = "buffer"
            /\ pc' = [pc EXCEPT ![0] = "run_call"]
            /\ UNCHANGED <<err, frame>>
    /\ UNCHANGED <<Pid, LastError, CtxErr, Cancel, onexit, taken, link, linkDone,
                   panicked, maxLinks, osVars, histVars, eeStderr, startVars, pureVars>>

\* Run(), invoked by the caller or by Output/CombinedOutput:
\* defer c.cleanup(); if c.LastError != nil { return c.LastError }
Run ==
    /\ ~panicked
    /\ \/ pc[0] = "config" /\ op' = "Run"
       \/ pc[0] = "run_call" /\ UNCHANGED op
    /\ IF LastErrorSet
       THEN Leave("Run", LastError)
       ELSE pc' = [pc EXCEPT ![0] = "run_start"] /\ UNCHANGED <<err, frame>>
    /\ UNCHANGED <<cmdVars, taken, link, linkDone, panicked, maxLinks, osVars,
                   histVars, eeStderr, startVars, pureVars>>

\* a Run that notes the error of Start and carries on
RunStartCarriesOn ==
    /\ ~panicked /\ pc[0] = "run_start"
    /\ \/ /\ err' = IF CtxErr = "canceled" THEN "context_canceled" ELSE "start_failed"
          /\ UNCHANGED <<Process, starts>>
       \/ /\ CtxErr = "nil"
          /\ Process' = "running"
          /\ starts' = starts + 1
          /\ UNCHANGED err
    /\ pc' = [pc EXCEPT ![0] = "run_pid"]
    /\ UNCHANGED <<cmdVars, taken, frame, op, link, linkDone, panicked, maxLinks, groupKill,
                   ran, registered, firedRunning, eeStderr, startVars, pureVars>>

\* if err := c.Start(); err != nil { return err }
\* exec.Cmd.Start returns ctx.Err() when the command's context is already
\* done, may fail to spawn, or starts the child
RunStart ==
    /\ ~panicked /\ pc[0] = "run_start"
    /\ \/ /\ CtxErr = "canceled"
          /\ Leave("Run", "context_canceled")
          /\ UNCHANGED <<Process, starts>>
       \/ /\ CtxErr = "nil"
          /\ Leave("Run", "start_failed")
          /\ UNCHANGED <<Process, starts>>
       \/ /\ CtxErr = "nil"
          /\ Process' = "running"
          /\ starts' = starts + 1
          /\ pc' = [pc EXCEPT ![0] = "run_pid"]
          /\ UNCHANGED <<err, frame>>
    /\ UNCHANGED <<cmdVars, taken, op, link, linkDone, panicked, maxLinks, groupKill,
                   ran, registered, firedRunning, eeStderr, startVars, pureVars>>

\* start hooks called before the process id is stored: they read the old c.Pid
PidUnrecorded == Pid

\* the c.Pid a start hook reads: the value Run stored before the loop (no
\* other step writes c.Pid)
PidAtHooks == Pid'

\* c.mu.Lock(); if c.Process != nil { c.Pid = c.Process.Pid };
\* onstart := c.onstart; c.mu.Unlock(); for _, v := range onstart { v(c) }
RunPid ==
    /\ ~panicked /\ pc[0] = "run_pid"
    /\ Pid' = ChildPid
    /\ startSeen' = startSeen \o [i \in 1..Len(onstart) |-> << onstart[i], PidAtHooks >>]
    /\ pc' = [pc EXCEPT ![0] = "run_wait"]
    /\ UNCHANGED <<LastError, CtxErr, Cancel, onexit, Stdout, Stderr, taken, frame, op,
                   err, link, linkDone, panicked, maxLinks, osVars, histVars, eeStderr,
                   onstart, pureVars>>

\* the errors c.Wait() can report for a finished child: the kill signal, or
\* its own exit status (nil for status 0)
WaitErrors ==
    IF Process = "killed" THEN {"signal_killed"} ELSE {"nil", "exit_status"}

\* return c.Wait(): blocks until the child has finished
RunWait ==
    /\ ~panicked /\ pc[0] = "run_wait"
    /\ Process \in {"exited", "killed"}
    /\ \E e \in WaitErrors : Leave("Run", e)
    /\ UNCHANGED <<cmdVars, taken, op, link, linkDone, panicked, maxLinks, osVars,
                   histVars, eeStderr, startVars, pureVars>>

\* err.(*exec.ExitError): the errors of Wait for a child that ran and did
\* not exit with status 0
IsExitError(e) == e \in {"exit_status", "signal_killed"}

\* an Output that takes the error stream as captured whoever bound it
captureAlways == TRUE

\* captureErr, as Output computed it before it installed its saver
captureErr == Stderr = "saver"

\* Output/CombinedOutput after Run returned: Output stores the captured
\* error stream in an ExitError if captureErr; both collect the buffer and
\* return Run's error; their own deferred cleanup() runs
OutputReturn ==
    /\ ~panicked /\ pc[0] = "out_post"
    /\ eeStderr' = IF op = "Output" /\ err # "nil" /\ captureErr /\ IsExitError(err)
                   THEN "captured" ELSE "nil"
    /\ Leave("outer", err)
    /\ UNCHANGED <<cmdVars, taken, op, link, linkDone, panicked, maxLinks, osVars,
                   histVars, startVars, pureVars>>

\* ---- the environment

\* the signal of link k fires (the linked context is cancelled, or the
\* deadline of Timeout elapses) while its watcher waits
Fire(k) ==
    /\ ~panicked /\ pc[k] = "select" /\ linkDone[k] = "open"
    /\ linkDone' = [linkDone EXCEPT ![k] = "fired"]
    /\ firedRunning' = (firedRunning \/ Process = "running")
    /\ UNCHANGED <<cmdVars, pc, taken, frame, op, err, link, panicked, maxLinks,
                   osVars, starts, ran, registered, eeStderr, startVars, pureVars>>

\* the child exits on its own
ProcExit ==
    /\ ~panicked /\ Process = "running"
    /\ Process' = "exited"
    /\ UNCHANGED <<cmdVars, goVars, groupKill, histVars, eeStderr, startVars, pureVars>>

\* os/exec: once the command's context is done, Process.Kill() on the child
ExecKill ==
    /\ ~panicked /\ Process = "running" /\ CtxErr = "canceled"
    /\ Process' = "killed"
    /\ UNCHANGED <<cmdVars, goVars, groupKill, histVars, eeStderr, startVars, pureVars>>

-----------------------------------------------------------------------------
\* The specifications.

\* the lifecycle of one Command with at most MaxLinks cancellation links
Init == EscIdle /\ NewIdle /\ ArgvIdle /\ LifeInit(MaxLinks)

Next ==
    \/ \E k \in Links : Context(k)
    \/ \E k \in Links : Timeout(k)
    \/ \E n \in 1..MaxHooks : OnExit(n)
    \/ \E outcome \in {"ok", "lookup", "parse"} : AsUser(outcome)
    \/ SetStdout
    \/ SetStderr
    \/ Output
    \/ CombinedOutput
    \/ Run
    \/ RunStart
    \/ RunPid
    \/ RunWait
    \/ OutputReturn
    \/ \E g \in Goroutines : CleanupTake(g)
    \/ \E g \in Goroutines : CleanupHook(g)
    \/ \E g \in Goroutines : CleanupCheck(g)
    \/ \E g \in Goroutines : CleanupCall(g)
    \/ \E k \in Links : WatchCancel(k)
    \/ \E k \in Links : WatchClear(k)
    \/ \E k \in Links : WatchCtxDone(k)
    \/ \E k \in Links : Fire(k)
    \/ ProcExit
    \/ ExecKill

Spec == Init /\ [][Next]_vars

\* the same lifecycle with one more cancellation link
InitLinks == EscIdle /\ NewIdle /\ ArgvIdle /\ LifeInit(MaxLinks + 1)
SpecLinks == InitLinks /\ [][Next]_vars

\* The scheduling of the goroutines: the caller, once inside a terminal
\* operation, and every watcher keep taking their next step when one is
\* possible. Nothing is assumed of the environment: a linked signal may
\* never fire and the child may never exit.
Fairness ==
    /\ WF_vars(RunStart) /\ WF_vars(RunPid) /\ WF_vars(RunWait) /\ WF_vars(OutputReturn)
    /\ \A g \in 0..(MaxLinks + 1) :
          /\ WF_vars(g \in Goroutines /\ CleanupTake(g))
          /\ WF_vars(g \in Goroutines /\ CleanupHook(g))
          /\ WF_vars(g \in Goroutines /\ CleanupCheck(g))
          /\ WF_vars(g \in Goroutines /\ CleanupCall(g))
    /\ \A k \in 1..(MaxLinks + 1) :
          /\ WF_vars(k \in Links /\ (WatchCancel(k) \/ WatchCtxDone(k)))
          /\ WF_vars(k \in Links /\ WatchClear(k))

\* the lifecycle under fair scheduling, with one link and with two
SpecLive == Spec /\ Fairness
SpecLinksLive == SpecLinks /\ Fairness

\* The handle with start hooks and no cancellation link: the steps of the
\* caller and of the child.
NextStart ==
    \/ \E n \in 1..MaxStarts : OnStart(n)
    \/ \E n \in 1..MaxHooks : OnExit(n)
    \/ \E outcome \in {"ok", "lookup", "parse"} : AsUser(outcome)
    \/ SetStdout
    \/ SetStderr
    \/ Output
    \/ CombinedOutput
    \/ Run
    \/ RunStart
    \/ RunPid
    \/ RunWait
    \/ OutputReturn
    \/ CleanupTake(0)
    \/ CleanupHook(0)
    \/ CleanupCheck(0)
    \/ CleanupCall(0)
    \/ ProcExit

InitStart == EscIdle /\ NewIdle /\ ArgvIdle /\ LifeInit(0)
SpecStart == InitStart /\ [][NextStart]_vars

\* ReplaceShellString on every bounded input
InitEscape == EscInit /\ NewIdle /\ ArgvIdle /\ LifeInit(0)
SpecEscape == InitEscape /\ [][EscNext]_vars

\* ReplaceShellString on inputs that hold a variable reference
InitRefs == RefInit /\ NewIdle /\ ArgvIdle /\ LifeInit(0)
SpecRefs == InitRefs /\ [][EscNext]_vars

\* Shell, UseSudo and Start on every bounded handle
InitArgv == EscIdle /\ NewIdle /\ ArgvInit /\ LifeInit(0)
SpecArgv == InitArgv /\ [][ArgvNext]_vars

\* New on every bounded template and argument list
InitNew == EscIdle /\ NewInit /\ ArgvIdle /\ LifeInit(0)
SpecNew == InitNew /\ [][NewNext]_vars

-----------------------------------------------------------------------------
\* What the specification expects of the escaper and of New, written from
\* its text (spec.md 4.1, 4.2), to compare the code's results with.

\* the Classifier rule for one character
EscapeChar(c) == IF c \in shellNormal THEN << c >> ELSE << "\\", c >>

\* every character escaped per the Classifier, no variable exemption
RECURSIVE EscapeAllFrom(_, _)
EscapeAllFrom(str, i) ==
    IF i > Len(str) THEN << >>
    ELSE EscapeChar(str[i]) \o EscapeAllFrom(str, i + 1)

EscapeAll(str) == EscapeAllFrom(str, 1)

\* the three-state scanner None / InSimpleVar / InBracedVar: a reference
\* starts at a `$` followed by a name character, or by `{` and a name
\* character; a simple reference lasts while name characters follow; a braced
\* reference lasts through its `}`; any other character ends the reference
\* and is treated under the normal rules
RECURSIVE PreserveScan(_, _, _)
PreserveScan(str, i, st) ==
    IF i > Len(str) THEN << >>
    ELSE
      LET v == str[i]
          startsSimple == v = "$" /\ i + 1 <= Len(str) /\ str[i + 1] \in shellVars
          startsBraced == /\ v = "$" /\ i + 2 <= Len(str)
                          /\ str[i + 1] = "{" /\ str[i + 2] \in shellVars
      IN
      IF st = "InSimpleVar" /\ v \in shellVars
      THEN << v >> \o PreserveScan(str, i + 1, "InSimpleVar")
      ELSE IF st = "InBracedVar" /\ (v = "{" \/ v \in shellVars)
      THEN << v >> \o PreserveScan(str, i + 1, "InBracedVar")
      ELSE IF st = "InBracedVar" /\ v = "}"
      THEN << v >> \o PreserveScan(str, i + 1, "None")
      ELSE IF startsBraced
      THEN << v >> \o PreserveScan(str, i + 1, "InBracedVar")
      ELSE IF startsSimple
      THEN << v >> \o PreserveScan(str, i + 1, "InSimpleVar")
      ELSE EscapeChar(v) \o PreserveScan(str, i + 1, "None")

EscapePreserve(str) == PreserveScan(str, 1, "None")

\* the number of `%s` markers in a text, scanned left to right
RECURSIVE CountMarkers(_, _)
CountMarkers(str, i) ==
    IF i + 1 > Len(str) THEN 0
    ELSE IF str[i] = "%" /\ str[i + 1] = "s" THEN 1 + CountMarkers(str, i + 2)
    ELSE CountMarkers(str, i + 1)

RECURSIVE TokenMarkers(_, _)
TokenMarkers(toks, k) ==
    IF k > Len(toks) THEN 0
    ELSE CountMarkers(toks[k].text, 1) + TokenMarkers(toks, k + 1)

\* the number of markers of the whole argument-vector template
RECURSIVE MarkerCount(_, _)
MarkerCount(ca, k) ==
    IF k > Len(ca) THEN 0
    ELSE TokenMarkers(Tokenize(ca[k]), 1) + MarkerCount(ca, k + 1)

\* a text with its markers replaced by the escaped arguments n+1, n+2, ...
\* (n arguments were consumed before it); substituted text is not rescanned
RECURSIVE FillText(_, _, _, _, _)
FillText(str, i, ps, n, nonEsc) ==
    IF i > Len(str) THEN << >>
    ELSE IF i + 1 <= Len(str) /\ str[i] = "%" /\ str[i + 1] = "s"
    THEN ReplaceShellString(ps[n + 1], nonEsc) \o FillText(str, i + 2, ps, n + 1, nonEsc)
    ELSE << str[i] >> \o FillText(str, i + 1, ps, n, nonEsc)

RECURSIVE FillTokens(_, _, _, _)
FillTokens(toks, k, ps, n) ==
    IF k > Len(toks) THEN << >>
    ELSE FillText(toks[k].text, 1, ps, n, toks[k].nonEscape)
           \o FillTokens(toks, k + 1, ps, n + CountMarkers(toks[k].text, 1))

\* the argument vector in which the k-th marker of the whole template holds
\* the escaped k-th argument
ExpectedArgs(ca, ps) ==
    [k \in 1..Len(ca) |-> FillTokens(Tokenize(ca[k]), 1, ps, MarkerCount(SubSeq(ca, 1, k - 1), 1))]

\* no argument holds a character a marker is made of
PlainParts == \A k \in 1..Len(parts) : \A j \in 1..Len(parts[k]) : parts[k][j] \notin {"%", "s"}

-----------------------------------------------------------------------------
\* The claims.

Returned == pc[0] = "returned"

\* the terminal operation has returned and every watcher has finished
Quiescent == Returned /\ \A k \in Links : pc[k] \in {"unused", "done"}

\* nothing of the program runs any more: it crashed, or it is quiescent
ProgramEnded == panicked \/ Quiescent

\* C1: every exit hook (the kill hook of New, the releases of Timeout, the
\* hooks of OnExit) is executed exactly once per Command: never twice, and
\* once the program has ended (crashed, or returned with every watcher
\* finished) every registered hook has run.
C1_HooksRunExactlyOnce ==
    /\ \A h \in registered : ran[h] <= 1
    /\ ProgramEnded => \A h \in registered : ran[h] = 1

\* C2: when a linked signal fired while the child was running and the child
\* was killed for it, the kill signal was sent to the whole process group by
\* the time the terminal operation has returned and the watchers have finished.
C2_GroupKilled ==
    (Quiescent /\ firedRunning /\ Process = "killed") => groupKill

\* C3: when the terminal operation has returned, every exit hook registered
\* before the call has been executed.
C3_CleanupBeforeReturn ==
    Returned => \A h \in registered : ran[h] = 1

\* C4: when a linked signal fired while the child was running and the child
\* was killed for it, the program does not crash, and the terminal operation
\* returns the forced-termination error with the handle's context cancelled.
C4_CancelReportsKilled ==
    (firedRunning /\ Process = "killed")
        => /\ ~panicked
           /\ Returned => (err = "signal_killed" /\ CtxErr = "canceled")

\* C5: ReplaceShellString(s, true) prefixes every character outside the
\* bare-safe set with a backslash, `$` included.
C5_NonEscapeEscapesAll ==
    (escPc = "done" /\ nonEscape) => r = EscapeAll(s)

\* C6: ReplaceShellString(s, false) emits the characters of a variable
\* reference verbatim, every other bare-safe character unchanged and every
\* other character behind exactly one backslash.
C6_PreserveEscapesRest ==
    (escPc = "done" /\ ~nonEscape) => r = EscapePreserve(s)

\* C7: with as many arguments as markers (and no argument holding marker
\* text), New succeeds and the k-th marker counted over all elements holds
\* the escaped k-th argument.
C7_ArgsInScanOrder ==
    (newPc # "call" /\ PlainParts /\ MarkerCount(cmdArgs, 1) = Len(parts))
        => (newPc = "done" /\ Args = ExpectedArgs(cmdArgs, parts))

\* C8: with fewer arguments than markers in the whole template, New fails
\* with the index-out-of-range panic.
C8_TooFewArgsPanics ==
    (newPc # "call" /\ MarkerCount(cmdArgs, 1) > Len(parts)) => newPc = "panic"

\* C9: with more arguments than markers in the whole template, New fails.
C9_TooManyArgsPanics ==
    (newPc # "call" /\ MarkerCount(cmdArgs, 1) < Len(parts)) => newPc = "panic"

\* C10: once a configuration call has recorded LastError, no process is ever
\* started and a terminal operation that returns, returns exactly that
\* error; AsUser hands the handle back for further configuration without
\* crashing, and no later step clears LastError.
C10_LastErrorShortCircuits ==
    /\ [](LastError # "nil" => /\ starts = 0 /\ Process = "none"
                               /\ Returned => err = LastError)
    /\ [][ /\ LastError # "nil" => LastError' # "nil"
           /\ (pc[0] = "config" /\ LastError' # LastError)
                 => (pc'[0] = "config" /\ panicked' = panicked) ]_vars

\* C10 happens: Output returned the recorded error of a failed AsUser on a
\* handle that has a cancellation link and an exit hook
C10_Witness ==
    /\ Returned /\ op = "Output" /\ LastError = "lookup" /\ err = "lookup"
    /\ \E k \in Links : link[k] # "none"
    /\ UserHook(1) \in registered

\* C11: Output on a handle whose Stdout the caller bound starts no process
\* (so nothing is written to the bound writer) and returns an error, the
\* recorded LastError or else "Stdout already set"; Run on such a handle is
\* not refused for the binding and keeps the caller's writer as the stream.
C11_OutputStdoutBound ==
    /\ (op = "Output" /\ Stdout = "writer")
          => /\ starts = 0 /\ Process = "none"
             /\ Returned => err = (IF LastError # "nil" THEN LastError ELSE "stdout_set")
    /\ op = "Run" => (Stdout \in {"nil", "writer"} /\ err \notin {"stdout_set", "stderr_set"})

\* C11 happens: Output returned "Stdout already set" without a start
C11_Witness ==
    Returned /\ op = "Output" /\ Stdout = "writer" /\ err = "stdout_set" /\ starts = 0

\* C11 happens, the Run half: Run on a handle with a bound Stdout started
\* the child and returned its success
C11_RunWitness ==
    Returned /\ op = "Run" /\ Stdout = "writer" /\ starts = 1 /\ err = "nil"

\* C12: CombinedOutput either passed its checks, and then Stdout and Stderr
\* are both the one capture buffer, or it started no process and returns the
\* error of the first failed check: the recorded LastError, "Stdout already
\* set" or "Stderr already set"; with a stream bound by the caller it never
\* starts a process. What it returns after Run is Run's error.
C12_CombinedOutputChecks ==
    op = "CombinedOutput" =>
        IF Stdout = "buffer"
        THEN Stderr = "buffer" /\ LastError = "nil"
                /\ (Returned => err \notin {"stdout_set", "stderr_set"})
        ELSE /\ LastError # "nil" \/ Stdout = "writer" \/ Stderr = "writer"
             /\ starts = 0 /\ Process = "none"
             /\ Returned => err = (IF LastError # "nil" THEN LastError
                                   ELSE IF Stdout = "writer" THEN "stdout_set"
                                   ELSE "stderr_set")

\* C12 happens: CombinedOutput returned "Stderr already set" without a start
C12_Witness ==
    /\ Returned /\ op = "CombinedOutput" /\ Stdout = "nil" /\ Stderr = "writer"
    /\ err = "stderr_set" /\ starts = 0

\* C12 happens, the capturing half: CombinedOutput ran the child on the
\* shared buffer and returned its exit status
C12_CaptureWitness ==
    /\ Returned /\ op = "CombinedOutput" /\ Stdout = "buffer" /\ Stderr = "buffer"
    /\ err = "exit_status" /\ starts = 1

\* C13: for every link attached by Timeout, the release of its timer is a
\* registered exit hook that runs at most once, and exactly once by the time
\* the program has ended; and when its deadline elapsed while the child was
\* running and the child was killed for it, the program does not crash and
\* the terminal operation returns the forced-termination error with the
\* handle's context cancelled.
C13_TimeoutKillsAndReleases ==
    \A k \in Links : link[k] = "timeout" =>
        /\ ReleaseHook(k) \in registered
        /\ ran[ReleaseHook(k)] <= 1
        /\ ProgramEnded => ran[ReleaseHook(k)] = 1
        /\ (linkDone[k] = "fired" /\ firedRunning /\ Process = "killed")
              => /\ ~panicked
                 /\ Returned => (err = "signal_killed" /\ CtxErr = "canceled")

\* no linked context was cancelled and no deadline elapsed
NoSignalFired == \A k \in Links : linkDone[k] # "fired"

\* C14: a hook registered with OnExit that runs after the child completed
\* on its own, while no linked signal and no deadline has fired, observes
\* Ctx.Err() == nil, whatever links were attached before it was registered.
C14_HooksSeeLiveContext ==
    [][ \A n \in 1..MaxHooks :
          ( /\ ran'[UserHook(n)] = ran[UserHook(n)] + 1
            /\ Process = "exited" /\ NoSignalFired )
              => CtxErr = "nil" ]_vars

\* the text $NAME, with a NAME of n characters, stands at position a
SimpleRefAt(str, a, n) ==
    /\ n >= 1 /\ a + n <= Len(str)
    /\ str[a] = "$"
    /\ \A j \in 1..n : str[a + j] \in shellVars

\* the text ${NAME}, with a NAME of n characters, stands at position a
BracedRefAt(str, a, n) ==
    /\ n >= 1 /\ a + n + 2 <= Len(str)
    /\ str[a] = "$" /\ str[a + 1] = "{" /\ str[a + n + 2] = "}"
    /\ \A j \in 1..n : str[a + 1 + j] \in shellVars

\* the part of the result r written for the characters a .. b of s
ResultFor(a, b) ==
    LET before == Len(WrittenFor(s, 1, a - 1))
    IN SubSeq(r, before + 1, before + Len(WrittenFor(s, a, b)))

\* C15: wherever the text $NAME or ${NAME} stands in s, whatever surrounds
\* it, ReplaceShellString(s, false) writes exactly that text for it: the
\* `$`, both braces and every character of NAME, with no backslash.
C15_ReferencesVerbatim ==
    (escPc = "done" /\ ~nonEscape) =>
        \A a \in 1..Len(s) : \A n \in 1..Len(s) :
            /\ SimpleRefAt(s, a, n) => ResultFor(a, a + n) = SubSeq(s, a, a + n)
            /\ BracedRefAt(s, a, n) => ResultFor(a, a + n + 2) = SubSeq(s, a, a + n + 2)

\* the loop's writes, taken character range by character range, make up r
WrittenIsResult ==
    (escPc = "done" /\ ~nonEscape) =>
        \A a \in 1..Len(s) : WrittenFor(s, 1, a - 1) \o WrittenFor(s, a, Len(s)) = r
\* a variable reference starts somewhere in str: a `$` followed by a name
\* character, or by `{` and a name character
HasReference(str) ==
    \E a \in 1..Len(str) :
        /\ str[a] = "$"
        /\ \/ a + 1 <= Len(str) /\ str[a + 1] \in shellVars
           \/ a + 2 <= Len(str) /\ str[a + 1] = "{" /\ str[a + 2] \in shellVars

\* every character of str is bare-safe
AllBareSafe(str) == \A i \in 1..Len(str) : str[i] \in shellNormal

\* C16: for a string s in which no variable reference starts, the result
\* of ReplaceShellString(s, false) equals that of ReplaceShellString(s, true)
\* exactly when every character of s is bare-safe: the two differ as soon
\* as s holds one character outside the bare-safe set.
C16_ModesDifferOnUnsafe ==
    (escPc = "done" /\ ~HasReference(s)) =>
        ((r = ReplaceShellString(s, ~nonEscape)) <=> AllBareSafe(s))
\* C17: once Shell(name) was called, the program that the terminal
\* operation executes is the one `name` resolves to, whatever program the
\* handle was constructed with; not only argv[0] carries the name.
C17_ShellSetsProgram ==
    (argvPc = "started" /\ shellName # "") => execve[1] = LookPath(shellName)
\* C18: Output runs the command with its own buffer on standard output and
\* returns the error of Run; it captures the error stream exactly when the
\* caller had bound no Stderr (the caller's writer is kept otherwise), and
\* the returned error carries the captured bytes exactly when the stream
\* was captured and the error is an exit-status error.
C18_OutputCapturesStderr ==
    /\ eeStderr = "captured" => (op = "Output" /\ pc[0] \notin {"config", "out_post"})
    /\ (op = "Output" /\ Stdout = "buffer") =>
          /\ Stderr \in {"saver", "writer"}
          /\ Returned =>
                /\ err \in {"nil", "exit_status", "signal_killed", "start_failed",
                             "context_canceled"}
                /\ eeStderr = "captured" <=>
                      (Stderr = "saver" /\ err \in {"exit_status", "signal_killed"})

C18_Witness ==
    /\ Returned /\ op = "Output" /\ Stderr = "saver"
    /\ err = "exit_status" /\ eeStderr = "captured"

C18_BoundWitness ==
    /\ Returned /\ op = "Output" /\ Stderr = "writer"
    /\ err = "exit_status" /\ eeStderr = "nil"
\* a variable reference starts at position a of str
StartsRefAt(str, a) ==
    /\ str[a] = "$"
    /\ \/ a + 1 <= Len(str) /\ str[a + 1] \in shellVars
       \/ a + 2 <= Len(str) /\ str[a + 1] = "{" /\ str[a + 2] \in shellVars

\* C19: ReplaceShellString(s, false) writes a `$` without a backslash only
\* where a variable reference starts (a name character follows, or `{` and
\* a name character); for every other `$`, the last character of s and the
\* `$` of a `${` that ends s included, it writes a backslash and the `$`.
C19_DollarEscapedUnlessReference ==
    (escPc = "done" /\ ~nonEscape) =>
        \A a \in 1..Len(s) :
            s[a] = "$" =>
                ResultFor(a, a) = (IF StartsRefAt(s, a) THEN << "$" >> ELSE << "\\", "$" >>)

\* the character at position i closes an open braced scan without being
\* the closing brace
ClosesBracedScan(str, i) ==
    /\ InVarAt(str, i) = 2
    /\ str[i] \notin ({ "{", "}" } \cup shellVars)

\* C20: a character other than `}` that closes a braced scan is treated
\* under the normal rules: ReplaceShellString(s, false) writes it behind a
\* backslash unless it is bare-safe or starts a variable reference, and the
\* characters after it are escaped the same way up to the end of s.
C20_ScanCloserEscaped ==
    (escPc = "done" /\ ~nonEscape) =>
        \A i \in 1..Len(s) :
            ClosesBracedScan(s, i) =>
                /\ ResultFor(i, i) = (IF StartsRefAt(s, i) THEN << s[i] >> ELSE EscapeChar(s[i]))
                /\ \A j \in (i + 1)..Len(s) :
                      (\A k \in i..j : ~StartsRefAt(s, k))
                          => ResultFor(j, j) = EscapeChar(s[j])
\* C21: expanding one template element replaces each `%s` marker of the
\* original element text by one escaped argument and consumes exactly that
\* many arguments: text brought in by an argument is never taken for a
\* further marker.
C21_SubstitutedTextNotRescanned ==
    (newPc # "call" /\ Len(cmdArgs) = 1 /\ MarkerCount(cmdArgs, 1) <= Len(parts))
        => (newPc = "done" /\ Args = ExpectedArgs(cmdArgs, parts))
\* the cancellation links attached to the handle
Attached == { k \in Links : link[k] # "none" }

\* C22: with several cancellation links attached to one handle (Context
\* and Timeout, or two Context calls), under every interleaving of their
\* watchers with each other and with cleanup(), no goroutine calls
\* c.Cancel while it is nil: the program never crashes on the nil call.
C22_CancelNeverCalledNil ==
    Cardinality(Attached) >= 2 => ~panicked
\* C23: whichever side of the completion race ran cleanup first (a watcher
\* on its signal, or the caller after the child exited on its own), once
\* the terminal operation has returned and the watchers have finished the
\* handle is in the same state: no exit hook is left in the list, every
\* registered hook has run once and the handle's own Ctx is cancelled.
C23_SameFinalState ==
    Quiescent =>
        /\ onexit = << >>
        /\ \A g \in Goroutines : taken[g] = << >>
        /\ \A h \in registered : ran[h] = 1
        /\ CtxErr = "canceled"

\* the watcher won the race: its signal fired while the child ran, which
\* was killed for it
C23_Witness ==
    /\ Quiescent /\ firedRunning /\ Process = "killed" /\ err = "signal_killed"
    /\ \E k \in Links : link[k] # "none"

\* the natural exit won the race: no signal fired
C23_NaturalWitness ==
    /\ Quiescent /\ NoSignalFired /\ Process = "exited" /\ err = "nil"
    /\ \E k \in Links : link[k] # "none"
\* every watcher that was started has reached the end of its goroutine
WatchersDone == \A k \in Links : pc[k] \in {"unused", "done"}

\* C24: once a terminal operation has returned, every watcher started by
\* Context or Timeout eventually reaches the end of its goroutine, even if
\* its signal never fires: none stays blocked in its select.
C24_WatchersTerminate == Returned ~> WatchersDone
\* Start failed: exec.Cmd.Start returned an error
StartFailed == err \in {"start_failed", "context_canceled"}

C26_StartHooksAfterPid ==
    /\ startSeen # << >> => (starts = 1 /\ Pid # 0)
    /\ \A i \in 1..Len(startSeen) : startSeen[i] = << onstart[i], ChildPid >>
    /\ Len(startSeen) <= Len(onstart)
    /\ (pc[0] = "run_wait" \/ (starts = 1 /\ pc[0] # "run_pid"))
          => Len(startSeen) = Len(onstart)
    /\ (starts = 0 \/ pc[0] = "run_pid") => startSeen = << >>

C26_Witness ==
    /\ pc[0] = "run_wait" /\ Process = "running"
    /\ Len(onstart) = MaxStarts /\ Len(startSeen) = MaxStarts
\* the exit hook h is executed in this step
HookRuns(h) == ran'[h] = ran[h] + 1

\* C27: exit hooks accumulate over the OnExit and Timeout calls (each call
\* appends to the list, whose first entry is the kill hook of New) and are
\* executed in the order of their registration: when a hook runs, the kill
\* hook and every hook registered before it have run already, so the
\* group-kill decision precedes every user hook and every timer release.
C27_HooksInRegistrationOrder ==
    [][ /\ onexit' # onexit =>
              \/ onexit' = << >> /\ \E g \in Goroutines : taken'[g] = onexit
              \/ \E h \in DOMAIN ran : h \notin registered /\ onexit' = Append(onexit, h)
        /\ \A h \in registered :
              (HookRuns(h) /\ h # KillHook) => ran[KillHook] >= 1
        /\ \A g \in Goroutines : \A i \in 2..Len(taken[g]) :
              ~HookRuns(taken[g][i]) ]_vars
\* on a handle built by NewSh, a non-privileged caller has made exactly one
\* Shell call and one UseSudo call, in either order (UseSudo lengthens the
\* argument vector by the two elements of the prefix)
ShellAndSudoApplied ==
    /\ Path = LookPath("sh") /\ ~isRoot
    /\ configs = 2 /\ shellName # "" /\ Len(Argv) = Len(NewShArgs) + 2

\* C28: Shell(name) and UseSudo compose in either order: on a handle built
\* by NewSh, for a non-privileged caller, both orders give the argument
\* vector sudo -E name -c template.
C28_ShellSudoCommute ==
    ShellAndSudoApplied => Argv = << "sudo", "-E", shellName, "-c", Template >>
\* a linked signal has fired and no terminal operation was invoked yet
FiredPending == pc[0] = "config" /\ \E k \in Links : linkDone[k] = "fired"

\* C29: when a linked signal has fired before the terminal operation is
\* invoked, that operation never starts a process, and it returns an error.
C29_FiredBeforeRunStartsNothing ==
    [](FiredPending => [](starts = 0 /\ (Returned => err \notin {"none", "nil"})))
\* C30: the kill hook signals the process group only when a pid was
\* recorded and the handle's Ctx is cancelled at that moment: no kill is
\* sent for a child while no linked signal and no deadline has fired, nor
\* for a terminal operation that started no process (Pid = 0).
C30_KillOnlyWhenCancelled ==
    /\ groupKill => (Pid # 0 /\ starts = 1 /\ CtxErr = "canceled" /\ ran[KillHook] >= 1)
    /\ NoSignalFired => ~groupKill
    /\ Pid = 0 => ~groupKill

C30_Witness ==
    /\ groupKill /\ firedRunning /\ Process = "killed" /\ Returned

\* the child exited on its own, nothing fired, the kill hook ran: no kill
C30_NaturalWitness ==
    /\ Returned /\ Process = "exited" /\ NoSignalFired /\ ran[KillHook] = 1
    /\ ~groupKill /\ \E k \in Links : link[k] # "none"
\* the terminal operation failed before Run reached Start: a recorded
\* configuration error, or an output stream that was already bound
PreflightFailed == err \in {"lookup", "parse", "stdout_set", "stderr_set"}

\* C31: a terminal operation that fails pre-flight starts no process and
\* still runs cleanup: no exit hook runs twice, and when the operation has
\* returned every registered exit hook (timer releases included) has been
\* executed exactly once and the handle's Ctx is cancelled.
C31_PreflightFailureCleansUp ==
    PreflightFailed =>
        /\ starts = 0 /\ Process = "none" /\ Pid = 0
        /\ \A h \in registered : ran[h] <= 1
        /\ Returned => /\ \A h \in registered : ran[h] = 1
                       /\ onexit = << >>
                       /\ CtxErr = "canceled"
====
